---------------------------- MODULE Spec2Model ----------------------------
(***************************************************************************)
(* Model of proccsv (src/proccsv/__main__.py): validation of the rows of   *)
(* an ad-campaign report, their insertion into the metrics table, the      *)
(* aggregation by (date, country) and the writing of the result.           *)
(*                                                                         *)
(* Text is modelled as sequences of tokens, Python's float as IEEE-754     *)
(* binary64 with the significand held as a sequence of digits, so that     *)
(* get_clicks computes exactly what CPython computes for the inputs of     *)
(* the model.                                                              *)
(***************************************************************************)
EXTENDS Integers, Sequences, FiniteSets, TLC

(***************************************************************************)
(* Bounds of the model.                                                    *)
(***************************************************************************)
\* lines read by one call of read_data
MaxLines == 3
\* rows of the metrics table handed to process_data in SpecAgg
MaxRows == 3
\* largest number of impressions given to get_clicks in SpecClicks
MaxImp == 48
\* largest ctr percentage given to get_clicks in SpecClicks
MaxPct == 101
\* most negative number of impressions given to get_clicks in SpecClicks
MaxNeg == 3

\* Python's None, and a value that is not None
None == <<>>
Some(x) == <<x>>

\* Item = namedtuple('Item', ['val', 'msg'])
Item(val, msg) == [val |-> val, msg |-> msg]

(***************************************************************************)
(* Arithmetic on natural numbers too large for the integers of the model   *)
(* checker: a number is the sequence of its digits in base Base, most      *)
(* significant first, without a leading zero digit; <<>> is 0.             *)
(***************************************************************************)
Base == 2 ^ 13
LimbBits == CHOOSE k \in 1..30 : 2 ^ k = Base

RECURSIVE Digits(_)
Digits(n) == IF n = 0 THEN <<>> ELSE Append(Digits(n \div Base), n % Base)

RECURSIVE DigitsNat(_)
DigitsNat(d) ==
    IF d = <<>> THEN 0
    ELSE Base * DigitsNat(SubSeq(d, 1, Len(d) - 1)) + d[Len(d)]

RECURSIVE Normalize(_)
Normalize(d) ==
    IF d # <<>> /\ Head(d) = 0 THEN Normalize(Tail(d)) ELSE d

RECURSIVE Incr(_)
Incr(d) ==
    IF d = <<>> THEN <<1>>
    ELSE IF d[Len(d)] < Base - 1
    THEN Append(SubSeq(d, 1, Len(d) - 1), d[Len(d)] + 1)
    ELSE Append(Incr(SubSeq(d, 1, Len(d) - 1)), 0)

RECURSIVE MulCarry(_, _, _)
MulCarry(d, k, carry) ==
    IF d = <<>> THEN Digits(carry)
    ELSE LET t == d[Len(d)] * k + carry
         IN  Append(MulCarry(SubSeq(d, 1, Len(d) - 1), k, t \div Base), t % Base)

\* d * k for a natural number k
MulSmall(d, k) == IF k = 0 THEN <<>> ELSE MulCarry(d, k, 0)

\* the quotient digits (leading zeros kept) and the remainder of d / q
RECURSIVE ShortDiv(_, _, _)
ShortDiv(d, q, rem) ==
    IF d = <<>> THEN [quot |-> <<>>, rem |-> rem]
    ELSE LET t    == rem * Base + Head(d)
             rest == ShortDiv(Tail(d), q, t % q)
         IN  [quot |-> <<t \div q>> \o rest.quot, rem |-> rest.rem]

\* the number of bits of a natural number below Base
BitLenSmall(n) == CHOOSE k \in 0..LimbBits : n < 2 ^ k /\ (k = 0 \/ n >= 2 ^ (k - 1))

BitLen(d) ==
    IF d = <<>> THEN 0 ELSE (Len(d) - 1) * LimbBits + BitLenSmall(d[1])

\* bit j of d, bit 0 the least significant
GetBit(d, j) ==
    LET i == Len(d) - (j \div LimbBits)
    IN  IF i < 1 THEN 0 ELSE (d[i] \div (2 ^ (j % LimbBits))) % 2

\* d \div 2^n
ShiftRight(d, n) ==
    LET a    == n \div LimbBits
        c    == n % LimbBits
        d1   == IF a >= Len(d) THEN <<>> ELSE SubSeq(d, 1, Len(d) - a)
        prev(i) == IF i = 1 THEN 0 ELSE d1[i - 1]
    IN  Normalize([i \in 1..Len(d1) |->
            (prev(i) % (2 ^ c)) * (2 ^ (LimbBits - c)) + d1[i] \div (2 ^ c)])

\* d / 2^n rounded to the nearest integer, ties to the even one; sticky
\* says that the exact value lies above d
RoundShift(d, n, sticky) ==
    IF n <= 0 THEN d
    ELSE LET half == GetBit(d, n - 1) = 1
             rest == sticky \/ \E j \in 0..(n - 2) : GetBit(d, j) = 1
             odd  == GetBit(d, n) = 1
             kept == ShiftRight(d, n)
         IN  IF half /\ (rest \/ odd) THEN Incr(kept) ELSE kept

(***************************************************************************)
(* binary64: a value is (-1)^neg * m * 2^e with m of at most MantissaBits  *)
(* bits (a carry out of the rounding leaves m = 2^MantissaBits, which is   *)
(* the same value as 2^(MantissaBits-1) with e + 1).                       *)
(***************************************************************************)
MantissaBits == 53

Float(neg, m, e) == [neg |-> neg, m |-> m, e |-> e]

Abs(i) == IF i < 0 THEN -i ELSE i

\* m * 2^e (and more, when sticky) rounded to MantissaBits significant bits
RoundToPrecision(neg, m, e, sticky) ==
    IF BitLen(m) <= MantissaBits THEN Float(neg, m, e)
    ELSE LET n == BitLen(m) - MantissaBits
         IN  Float(neg, RoundShift(m, n, sticky), e + n)

\* float(p) / q for an int p and a positive int q, correctly rounded: the
\* quotient is taken to more than MantissaBits + 1 bits, then rounded
FloatDiv(p, q) ==
    LET t   == ((MantissaBits + 1 + BitLenSmall(q)) \div LimbBits) + 1
        num == Digits(Abs(p)) \o [i \in 1..t |-> 0]
        res == ShortDiv(num, q, 0)
    IN  IF p = 0 THEN Float(FALSE, <<>>, 0)
        ELSE RoundToPrecision(p < 0, Normalize(res.quot), -(t * LimbBits),
                              res.rem # 0)

\* x * i: the int is converted to float (exactly, for the ints of the
\* model), the exact product is rounded
FloatMulInt(x, i) ==
    RoundToPrecision(x.neg # (i < 0), MulSmall(x.m, Abs(i)), x.e, FALSE)

\* whether d is a power of two
IsPowerOfTwo(d) ==
    /\ d # <<>>
    /\ d[1] = 2 ^ (BitLenSmall(d[1]) - 1)
    /\ \A i \in 2..Len(d) : d[i] = 0

\* 1 >= x >= 0
FloatInUnit(x) ==
    \/ x.m = <<>>
    \/ /\ ~x.neg
       /\ \/ BitLen(x.m) + x.e <= 0
          \/ BitLen(x.m) + x.e = 1 /\ IsPowerOfTwo(x.m)

\* round(x): the nearest int, ties to the even one
PyRound(x) ==
    LET mag == IF x.e >= 0 THEN DigitsNat(x.m) * (2 ^ x.e)
               ELSE DigitsNat(RoundShift(x.m, -x.e, FALSE))
    IN  IF x.neg THEN -mag ELSE mag

(***************************************************************************)
(* Text.  A line is a sequence of field tokens separated by comma tokens.  *)
(*   date field    [k |-> "mdy", m, d, y]  the text MM/DD/YYYY             *)
(*                 [k |-> "ymd", m, d, y]  the text YYYY-MM-DD             *)
(*   name field    [k |-> "name", s]                                       *)
(*   number field  [k |-> "int", v, exp10] the decimal numeral of v        *)
(*                                         followed by exp10 zeros         *)
(*                 [k |-> "pct", v]        the numeral of v, then '%'      *)
(*                 [k |-> "word"]          letters                         *)
(*                 [k |-> "word%"]         letters, then '%'               *)
(***************************************************************************)
Comma == [k |-> ","]
MDY(m, d, y) == [k |-> "mdy", m |-> m, d |-> d, y |-> y]
Name(s) == [k |-> "name", s |-> s]
Numeral(v, exp10) == [k |-> "int", v |-> v, exp10 |-> exp10]
Pct(v) == [k |-> "pct", v |-> v]
Word == [k |-> "word"]
WordPct == [k |-> "word%"]

\* ','.join(fields)
RECURSIVE Line(_)
Line(fields) ==
    IF Len(fields) <= 1 THEN fields
    ELSE <<Head(fields), Comma>> \o Line(Tail(fields))

\* line.split(',')
RECURSIVE Split(_)
Split(line) ==
    IF \A i \in 1..Len(line) : line[i] # Comma THEN <<line>>
    ELSE LET c == CHOOSE i \in 1..Len(line) :
                      line[i] = Comma /\ \A j \in 1..(i - 1) : line[j] # Comma
         IN  <<SubSeq(line, 1, c - 1)>> \o Split(SubSeq(line, c + 1, Len(line)))

\* a Python int: v * 10^exp10
PyInt(v, exp10) == [v |-> v, exp10 |-> exp10]

\* the largest n with 10^n inside the range of binary64
FloatMaxExp10 == 308

IsLeap(y) == (y % 4 = 0 /\ y % 100 # 0) \/ y % 400 = 0

DaysInMonth(m, y) ==
    IF m = 2 THEN (IF IsLeap(y) THEN 29 ELSE 28)
    ELSE IF m \in {4, 6, 9, 11} THEN 30 ELSE 31

\* time.strptime(raw_date, '%m/%d/%Y') raises ValueError
StrptimeFails(f) ==
    \/ Len(f) # 1
    \/ f[1].k # "mdy"
    \/ f[1].m \notin 1..12
    \/ f[1].y \notin 1..9999
    \/ f[1].d \notin 1..DaysInMonth(f[1].m, f[1].y)

\* time.strftime('%Y-%m-%d', structured_time)
Strftime(f) == [k |-> "ymd", y |-> f[1].y, m |-> f[1].m, d |-> f[1].d]

get_date(raw_date) ==
    IF StrptimeFails(raw_date) THEN Item(None, "invalid date format")
    ELSE Item(Some(Strftime(raw_date)), "OK")

\* map_state_country(): the subdivisions of the reference data of the model
map_state_country ==
    [s \in {"California", "Texas", "Ontario"} |->
        IF s = "Ontario" THEN "CAN" ELSE "USA"]

\* state_country.get(state, 'XXX')
get_country(state, state_country) ==
    LET known == Len(state) = 1 /\ state[1].k = "name"
                 /\ state[1].s \in DOMAIN state_country
    IN  Item(Some(IF known THEN state_country[state[1].s] ELSE "XXX"), "OK")

\* int(raw) raises ValueError
IntFails(f) == Len(f) # 1 \/ f[1].k # "int"

get_impressions(raw_impress) ==
    IF IntFails(raw_impress)
    THEN Item(None, "value of number of impressions is not an integer")
    ELSE IF raw_impress[1].v < 0
    THEN Item(None, "value of number of impressions is negative")
    ELSE Item(Some(PyInt(raw_impress[1].v, raw_impress[1].exp10)), "OK")

\* float(raw_ctr[:raw_ctr.rindex('%')]) raises ValueError: no '%' in the
\* field, or no number before the last one
CtrFails(f) == Len(f) # 1 \/ f[1].k # "pct"

\* an exception that get_clicks does not catch
Raised(exc) == [exc |-> exc]
IsRaised(x) == "exc" \in DOMAIN x

\* the numerals of the model have exp10 = 0 or exp10 > FloatMaxExp10: the
\* conversion of impress_count to float is exact or raises OverflowError
get_clicks(raw_impress, raw_ctr) ==
    IF IntFails(raw_impress) \/ CtrFails(raw_ctr)
    THEN Item(None, "unable to compute number of clicks due to invalid format of ctr and/or number of impressions")
    ELSE LET ctr == FloatDiv(raw_ctr[1].v, 100)
         IN  IF ~FloatInUnit(ctr)
             THEN Item(None, "ctr percentage is outside [0, 100] interval")
             ELSE IF raw_impress[1].exp10 > FloatMaxExp10 /\ raw_impress[1].v # 0
             THEN Raised("OverflowError")
             ELSE Item(Some(PyRound(FloatMulInt(ctr, raw_impress[1].v))), "OK")

(***************************************************************************)
(* read_data: one line                                                     *)
(***************************************************************************)
\* raw_entry[3] raises IndexError (Python counts the fields from 0)
IndexError(raw_entry) == Len(raw_entry) < 4

\* the dict of lines 152-157, or the exception that building it raises
Entry(raw_entry) ==
    LET clicks == get_clicks(raw_entry[3], raw_entry[4])
    IN  IF IsRaised(clicks) THEN clicks
        ELSE [date        |-> get_date(raw_entry[1]),
              country     |-> get_country(raw_entry[2], map_state_country),
              impressions |-> get_impressions(raw_entry[3]),
              clicks      |-> clicks]

\* None in [item.val for item in entry.values()]
NoneInVals(entry) ==
    \/ entry.date.val = None
    \/ entry.country.val = None
    \/ entry.impressions.val = None
    \/ entry.clicks.val = None

\* not item.val, for a str, for the int of impressions and for the int of clicks
NotStr(val) == val = None \/ val[1] = ""
NotPyInt(val) == val = None \/ val[1].v = 0
NotInt(val) == val = None \/ val[1] = 0

\* ' & '.join(msgs)
RECURSIVE Join(_)
Join(msgs) ==
    IF Len(msgs) <= 1 THEN msgs
    ELSE <<Head(msgs), " & ">> \o Join(Tail(msgs))

\* ' & '.join([item.msg for item in entry.values() if not item.val])
ErrMsg(entry) ==
    Join(   (IF entry.date.val = None THEN <<entry.date.msg>> ELSE <<>>)
         \o (IF NotStr(entry.country.val) THEN <<entry.country.msg>> ELSE <<>>)
         \o (IF NotPyInt(entry.impressions.val) THEN <<entry.impressions.msg>> ELSE <<>>)
         \o (IF NotInt(entry.clicks.val) THEN <<entry.clicks.msg>> ELSE <<>>))

\* 'Error in line {}: {}'.format(counter, msg) on stderr
ErrorLine(counter, msg) == [line |-> counter, msg |-> msg]

\* the count left as it is
CountInvalid_Forgotten(error_count) == error_count

\* error_count += 1
CountInvalid(error_count) == error_count + 1

\* the parameters of INSERT INTO metrics VALUES (?, ?, ?, ?)
Row(entry) ==
    [date        |-> entry.date.val[1],
     country     |-> entry.country.val[1],
     impressions |-> entry.impressions.val[1].v,
     clicks      |-> entry.clicks.val[1]]

(***************************************************************************)
(* process_data and write_data                                             *)
(***************************************************************************)
\* the comparison of two texts YYYY-MM-DD
DateLess(a, b) ==
    \/ a.y < b.y
    \/ a.y = b.y /\ a.m < b.m
    \/ a.y = b.y /\ a.m = b.m /\ a.d < b.d

\* the comparison of two country codes of the model
CodeOrder == <<"CAN", "USA", "XXX">>
CodeRank(c) == CHOOSE i \in 1..Len(CodeOrder) : CodeOrder[i] = c
CodeLess(a, b) == CodeRank(a) < CodeRank(b)

\* ORDER BY date, country
KeyLess(a, b) ==
    \/ DateLess(a.date, b.date)
    \/ a.date = b.date /\ CodeLess(a.country, b.country)

\* GROUP BY date alone, the country that of the first row of the date
GroupKeys_ByDate(rows) ==
    {[date    |-> rows[i].date,
      country |-> rows[CHOOSE j \in 1..Len(rows) :
                          /\ rows[j].date = rows[i].date
                          /\ \A k \in 1..(j - 1) : rows[k].date # rows[i].date].country]
        : i \in 1..Len(rows)}

\* GROUP BY date, country
GroupKeys(rows) ==
    {[date |-> rows[i].date, country |-> rows[i].country] : i \in 1..Len(rows)}

\* the keys in the order in which the rows arrived
RECURSIVE ArrivalOrder(_)
ArrivalOrder(rows) ==
    IF rows = <<>> THEN <<>>
    ELSE LET before == ArrivalOrder(SubSeq(rows, 1, Len(rows) - 1))
             key    == [date |-> rows[Len(rows)].date,
                        country |-> rows[Len(rows)].country]
         IN  IF \E i \in 1..Len(before) : before[i] = key THEN before
             ELSE Append(before, key)

RECURSIVE OrderBy(_)
OrderBy(keys) ==
    IF keys = {} THEN <<>>
    ELSE LET first == CHOOSE k \in keys : \A j \in keys : ~KeyLess(j, k)
         IN  <<first>> \o OrderBy(keys \ {first})

InGroup(row, key) == row.date = key.date /\ row.country = key.country

\* SUM(impressions), SUM(clicks) over the rows of one group
RECURSIVE SumImpressions(_, _)
SumImpressions(rows, key) ==
    IF rows = <<>> THEN 0
    ELSE (IF InGroup(Head(rows), key) THEN Head(rows).impressions ELSE 0)
         + SumImpressions(Tail(rows), key)

RECURSIVE SumClicks(_, _)
SumClicks(rows, key) ==
    IF rows = <<>> THEN 0
    ELSE (IF InGroup(Head(rows), key) THEN Head(rows).clicks ELSE 0)
         + SumClicks(Tail(rows), key)

\* process_data without ORDER BY
process_data_Unordered(rows) ==
    LET keys == ArrivalOrder(rows)
    IN  [i \in 1..Len(keys) |->
            <<keys[i].date, keys[i].country,
              SumImpressions(rows, keys[i]), SumClicks(rows, keys[i])>>]

process_data(rows) ==
    LET keys == OrderBy(GroupKeys(rows))
    IN  [i \in 1..Len(keys) |->
            <<keys[i].date, keys[i].country,
              SumImpressions(rows, keys[i]), SumClicks(rows, keys[i])>>]

\* '{},{},{},{}\n'.format(*entry) for every entry of data
FormatLines(report) ==
    [i \in 1..Len(report) |->
        <<report[i][1], ",", report[i][2], ",", report[i][3], ",",
          report[i][4], "\n">>]

(***************************************************************************)
(* State.                                                                  *)
(*   bom         the input file starts with the UTF-16 byte order mark     *)
(*   pc          where main is: "read" (inside read_data), "process",      *)
(*               "write", "close", "done", "exited" (sys.exit() after the  *)
(*               second UnicodeError), "crashed" (an uncaught exception)   *)
(*   encoding    the encoding of the running read_data call                *)
(*   counter, error_count, raw_entry, entry   locals of read_data          *)
(*   metrics     the rows of the table metrics                             *)
(*   accepted    history: the rows inserted by the running read_data call  *)
(*   stderr      the last line printed to stderr, if any                   *)
(*   error_msg   the value returned by read_data, if any                   *)
(*   data        the value returned by process_data, if any                *)
(*   output      the lines of the output file, if written                  *)
(*   conn        "open" or "closed"                                        *)
(*   stdout      the lines printed to stdout                               *)
(***************************************************************************)
VARIABLES bom, pc, encoding, counter, error_count, raw_entry, entry, metrics,
          accepted, stderr, error_msg, data, output, conn, stdout

vars == <<bom, pc, encoding, counter, error_count, raw_entry, entry, metrics,
          accepted, stderr, error_msg, data, output, conn, stdout>>

Date1 == MDY(1, 15, 2019)
Date2 == MDY(12, 31, 2018)
HugeExp == FloatMaxExp10 + 92

\* the lines a file of the model is made of
RawLines ==
    { Line(<<Date1, Name("Texas"), Numeral(45, 0), Pct(70)>>),
      Line(<<Date1, Name("Atlantis"), Numeral(0, 0), Pct(70)>>),
      Line(<<Date1, Name("Texas"), Numeral(45, 0), Pct(70), Word>>),
      Line(<<MDY(13, 1, 2019), Name("Texas"), Numeral(0, 0), Pct(70)>>),
      Line(<<MDY(2, 29, 2019), Name("Texas"), Numeral(45, 0), Pct(0)>>),
      Line(<<Date1, Name("Texas"), Numeral(-5, 0), Pct(70)>>),
      Line(<<Date1, Name("Texas"), Word, Pct(70)>>),
      Line(<<Date1, Name("Texas"), Numeral(45, 0), Pct(101)>>),
      Line(<<Date1, Name("Texas"), Numeral(45, 0), Numeral(70, 0)>>),
      Line(<<Date1, Name("Texas"), Numeral(45, 0)>>),
      Line(<<Date1, Name("Texas"), Numeral(1, HugeExp)>>),
      Line(<<Date1>>),
      Line(<<Date1, Name("Texas"), Numeral(1, HugeExp), Pct(70)>>),
      Line(<<Date1, Name("Texas"), Numeral(1, HugeExp), Pct(101)>>) }

\* a decoder that reads text from any file
CanDecode_Any(enc) == TRUE

\* open(file_path, 'r', encoding=enc) and the iteration over the file
\* (lines 141, 148) give lines: the utf-16 codec raises UnicodeError on a
\* stream without the byte order mark, and the bytes of the mark are not
\* UTF-8, so that the utf-8 codec raises UnicodeDecodeError on the first
\* chunk of a file that starts with it
CanDecode(enc) == IF enc = "utf-16" THEN bom ELSE ~bom

Init ==
    /\ bom \in BOOLEAN
    /\ pc = "read"
    /\ encoding = "utf-8"
    /\ counter = 0
    /\ error_count = 0
    /\ raw_entry = <<>>
    /\ entry = None
    /\ metrics = <<>>
    /\ accepted = <<>>
    /\ stderr = None
    /\ error_msg = None
    /\ data = None
    /\ output = None
    /\ conn = "open"
    /\ stdout = <<>>

\* one turn of the loop of read_data (lines 148-175) on a line of the
\* set lines
ReadLine(lines) ==
    /\ pc = "read"
    /\ CanDecode(encoding)
    /\ counter < MaxLines
    /\ \E line \in lines :
        LET fields == Split(line)
            built  == Entry(fields)
        IN  /\ raw_entry' = fields
            /\ counter' = counter + 1
            /\ IF IndexError(fields)
               THEN /\ stderr' = Some(ErrorLine(counter + 1, <<"missing column">>))
                    /\ error_count' = CountInvalid(error_count)
                    /\ UNCHANGED <<pc, entry, metrics, accepted>>
               ELSE IF IsRaised(built)
               THEN /\ pc' = "crashed"
                    /\ UNCHANGED <<entry, error_count, stderr, metrics, accepted>>
               ELSE IF NoneInVals(built)
               THEN /\ entry' = Some(built)
                    /\ stderr' = Some(ErrorLine(counter + 1, ErrMsg(built)))
                    /\ error_count' = CountInvalid(error_count)
                    /\ UNCHANGED <<pc, metrics, accepted>>
               ELSE /\ entry' = Some(built)
                    /\ metrics' = Append(metrics, Row(built))
                    /\ accepted' = Append(accepted, Row(built))
                    /\ UNCHANGED <<pc, error_count, stderr>>
    /\ UNCHANGED <<bom, encoding, error_msg, data, output, conn, stdout>>

\* the end of the file: read_data returns (line 176)
EndOfFile ==
    /\ pc = "read"
    /\ CanDecode(encoding)
    /\ pc' = "process"
    /\ error_msg' = Some(error_count)
    /\ UNCHANGED <<bom, encoding, counter, error_count, raw_entry, entry, metrics,
                   accepted, stderr, data, output, conn, stdout>>

\* the decoder raises UnicodeError under utf-8, on the first chunk or on a
\* later one: main calls read_data again, under utf-16, with the same cursor
\* (lines 253-255, 141-145)
Fallback ==
    /\ pc = "read"
    /\ encoding = "utf-8"
    /\ encoding' = "utf-16"
    /\ counter' = 0
    /\ error_count' = 0
    /\ accepted' = <<>>
    /\ UNCHANGED <<bom, pc, raw_entry, entry, metrics, stderr, error_msg, data,
                   output, conn, stdout>>

\* a line of stdout
InvalidEncoding ==
    <<"Invalid encoding of the input file. Valid encodings: utf-8 and utf-16">>

\* the decoder raises UnicodeError under utf-16 too, and main goes on to
\* process_data instead of leaving
FatalExit_FallsThrough ==
    /\ pc = "read"
    /\ encoding = "utf-16"
    /\ stdout' = Append(stdout, InvalidEncoding)
    /\ conn' = "closed"
    /\ metrics' = <<>>
    /\ pc' = "process"
    /\ UNCHANGED <<bom, encoding, counter, error_count, raw_entry, entry, accepted,
                   stderr, error_msg, data, output>>

\* the decoder raises UnicodeError under utf-16 too, on the first chunk or
\* on a later one (lines 256-259)
FatalExit ==
    /\ pc = "read"
    /\ encoding = "utf-16"
    /\ stdout' = Append(stdout, InvalidEncoding)
    /\ conn' = "closed"
    /\ metrics' = <<>>
    /\ pc' = "exited"
    /\ UNCHANGED <<bom, encoding, counter, error_count, raw_entry, entry, accepted,
                   stderr, error_msg, data, output>>

\* data = process_data(cur) (line 262)
ProcessData ==
    /\ pc = "process"
    /\ data' = Some(process_data(metrics))
    /\ pc' = "write"
    /\ UNCHANGED <<bom, encoding, counter, error_count, raw_entry, entry, metrics,
                   accepted, stderr, error_msg, output, conn, stdout>>

\* write_data(data, output_path) (line 265)
WriteData ==
    /\ pc = "write"
    /\ output' = Some(FormatLines(data[1]))
    /\ pc' = "close"
    /\ UNCHANGED <<bom, encoding, counter, error_count, raw_entry, entry, metrics,
                   accepted, stderr, error_msg, data, conn, stdout>>

\* conn.close() deletes the in-memory database; the two prints (268-270)
Close ==
    /\ pc = "close"
    /\ conn' = "closed"
    /\ metrics' = <<>>
    /\ stdout' = stdout \o <<<<"Total number of invalid lines in the input file: {}", error_msg>>,
                             <<"File processed!">>>>
    /\ pc' = "done"
    /\ UNCHANGED <<bom, encoding, counter, error_count, raw_entry, entry, accepted,
                   stderr, error_msg, data, output>>

ReadRawLine == ReadLine(RawLines)

Next ==
    \/ ReadRawLine
    \/ EndOfFile
    \/ Fallback
    \/ FatalExit
    \/ ProcessData
    \/ WriteData
    \/ Close

Spec == Init /\ [][Next]_vars

(***************************************************************************)
(* SpecAgg: process_data, write_data and the end of main, from the states  *)
(* in which read_data has returned after a file of at most MaxRows         *)
(* accepted lines, read under utf-8 or, after the fallback, under utf-16.  *)
(***************************************************************************)
AggLines ==
    { Line(<<d, Name(s), Numeral(45, 0), Pct(70)>>) :
        d \in {Date1, Date2}, s \in {"California", "Texas", "Atlantis"} }
    \cup { Line(<<Date1, Name("Texas"), Numeral(10, 0), Pct(70)>>) }

AggFiles == UNION {[1..n -> AggLines] : n \in 0..MaxRows}

RowsOf(file) == [i \in 1..Len(file) |-> Row(Entry(Split(file[i])))]

InitAgg ==
    \E file \in AggFiles :
        /\ bom \in BOOLEAN
        /\ pc = "process"
        /\ encoding = IF bom THEN "utf-16" ELSE "utf-8"
        /\ counter = Len(file)
        /\ error_count = 0
        /\ raw_entry = IF file = <<>> THEN <<>> ELSE Split(file[Len(file)])
        /\ entry = IF file = <<>> THEN None
                   ELSE Some(Entry(Split(file[Len(file)])))
        /\ metrics = RowsOf(file)
        /\ accepted = RowsOf(file)
        /\ stderr = None
        /\ error_msg = Some(0)
        /\ data = None
        /\ output = None
        /\ conn = "open"
        /\ stdout = <<>>

NextAgg == ProcessData \/ WriteData \/ Close

SpecAgg == InitAgg /\ [][NextAgg]_vars

(***************************************************************************)
(* SpecClicks: get_impressions and get_clicks on the first line of a file, *)
(* for every number of impressions in -MaxNeg..MaxImp and every ctr        *)
(* percentage in -1..MaxPct.                                               *)
(***************************************************************************)
ClickLines ==
    { Line(<<Date1, Name("Texas"), i, c>>) :
        i \in {Numeral(v, 0) : v \in (-MaxNeg)..MaxImp} \cup {Word},
        c \in {Pct(v) : v \in (-1)..MaxPct} \cup {Numeral(70, 0), WordPct} }

ReadFirstLine == counter = 0 /\ ReadLine(ClickLines)

SpecClicks == Init /\ [][ReadFirstLine]_vars

(***************************************************************************)
(* What the claims are stated with.                                        *)
(***************************************************************************)
\* the step is one turn of the loop of read_data
LineStep == counter' = counter + 1

\* the items of the four fields of a line of at least 4 fields; the clicks
\* item is missing when get_clicks raises
FieldItems(fields) ==
    <<get_date(fields[1]), get_country(fields[2], map_state_country),
      get_impressions(fields[3])>>
    \o (IF IsRaised(get_clicks(fields[3], fields[4])) THEN <<>>
        ELSE <<get_clicks(fields[3], fields[4])>>)

CarriesValue(item) == item.val # None

AllFourCarryValue(fields) ==
    /\ Len(FieldItems(fields)) = 4
    /\ \A i \in 1..4 : CarriesValue(FieldItems(fields)[i])

\* the messages of the fields whose normalization failed, in field order
FailedMsgs(fields) ==
    LET items == FieldItems(fields)
        failed(i) == IF CarriesValue(items[i]) THEN <<>> ELSE <<items[i].msg>>
    IN  failed(1) \o failed(2) \o failed(3) \o failed(4)

WellFormedCtr(f) == Len(f) = 1 /\ f[1].k = "pct" /\ f[1].v \in 0..100

\* n / q rounded to the nearest integer, for n >= 0 and q > 0
RoundHalfUp(n, q) == (2 * n + q) \div (2 * q)
RoundHalfEven(n, q) ==
    IF 2 * (n % q) = q /\ (n \div q) % 2 = 0 THEN n \div q
    ELSE RoundHalfUp(n, q)

KeyOf(e) == [date |-> e[1], country |-> e[2]]

\* the indices of the rows of one group
GroupOf(rows, key) == {i \in 1..Len(rows) : InGroup(rows[i], key)}

RECURSIVE Total(_, _)
Total(f, S) ==
    IF S = {} THEN 0
    ELSE LET i == CHOOSE x \in S : TRUE IN f[i] + Total(f, S \ {i})

Permuted(rows, p) == [i \in 1..Len(rows) |-> rows[p[i]]]

Aggregated == pc \in {"write", "close"}

(***************************************************************************)
(* The claims.                                                             *)
(***************************************************************************)
\* C1: when the utf-8 pass failed and the utf-16 pass completed, the Report
\* is the aggregation of exactly the rows accepted during the utf-16 pass.
C1_FallbackDiscardsProgress ==
    /\ (encoding = "utf-16" /\ pc = "process") => metrics = accepted
    /\ (encoding = "utf-16" /\ data # None) => data[1] = process_data(accepted)

C1_Witness ==
    /\ encoding = "utf-16"
    /\ data # None
    /\ Len(accepted) = MaxLines
    /\ Len(data[1]) = 2

\* C2: the diagnostic of a rejected line of at least 4 fields is the join of
\* exactly the messages of the fields whose normalization failed, in field
\* order.
C2_DiagnosticJoinsFailures ==
    [][(LineStep /\ Len(raw_entry') >= 4 /\ error_count' = error_count + 1)
        => stderr' = Some(ErrorLine(counter', Join(FailedMsgs(raw_entry'))))]_vars

\* C3: whatever the line, read_data inserts its row or logs and counts it as
\* invalid, and goes on reading.
C3_RowErrorsNeverAbort ==
    [][LineStep =>
        /\ pc' = "read"
        /\ \/ Len(metrics') = Len(metrics) + 1 /\ error_count' = error_count
           \/ /\ metrics' = metrics
              /\ error_count' = error_count + 1
              /\ stderr' # None /\ stderr'[1].line = counter']_vars

\* C4: a line of at least 4 fields is accepted iff its four fields carry a
\* value; accepted, it inserts one row of the four values and leaves the
\* error count; rejected, it inserts nothing and adds one to the error count.
C4_AcceptedIffAllValues ==
    [][(LineStep /\ Len(raw_entry') >= 4) =>
        IF AllFourCarryValue(raw_entry')
        THEN /\ Len(metrics') = Len(metrics) + 1
             /\ SubSeq(metrics', 1, Len(metrics)) = metrics
             /\ LET row   == metrics'[Len(metrics')]
                    items == FieldItems(raw_entry')
                IN  /\ row.date = items[1].val[1]
                    /\ row.country = items[2].val[1]
                    /\ row.impressions = items[3].val[1].v
                    /\ row.clicks = items[4].val[1]
             /\ error_count' = error_count
        ELSE /\ metrics' = metrics
             /\ error_count' = error_count + 1]_vars

C6_OrderIndependent ==
    Aggregated =>
        /\ \A p \in Permutations(1..Len(metrics)) :
             process_data(Permuted(metrics, p)) = data[1]
        /\ \A j \in 1..(Len(data[1]) - 1) :
             KeyLess(KeyOf(data[1][j]), KeyOf(data[1][j + 1]))

C6_Witness ==
    /\ Aggregated
    /\ Len(metrics) = 3
    /\ Len(data[1]) = 3
    /\ KeyLess(metrics[3], metrics[2])
    /\ KeyLess(metrics[2], metrics[1])

\* C7: a line of fewer than 4 fields gets the 'missing column' diagnostic,
\* adds one to the error count and inserts no row.
C7_MissingColumn ==
    [][(LineStep /\ Len(raw_entry') < 4) =>
        /\ stderr' = Some(ErrorLine(counter', <<"missing column">>))
        /\ error_count' = error_count + 1
        /\ metrics' = metrics
        /\ accepted' = accepted
        /\ pc' = "read"]_vars

C7_Witness ==
    /\ Len(raw_entry) = 3
    /\ stderr = Some(ErrorLine(counter, <<"missing column">>))
    /\ error_count = 2
    /\ metrics = <<>>

\* C8: once decoding has failed under both encodings the run has ended:
\* no Report was computed, no output written, and no row is kept.
C8_FatalBeforeOutput ==
    (\E i \in 1..Len(stdout) : stdout[i] = InvalidEncoding) =>
        /\ pc = "exited"
        /\ data = None
        /\ output = None
        /\ metrics = <<>>
        /\ conn = "closed"

C8_Witness ==
    /\ pc = "exited"
    /\ Len(accepted) = MaxLines
    /\ stdout = <<InvalidEncoding>>

\* C9: for a valid row of I >= 0 impressions and ctr r% with 0 <= r <= 100,
\* clicks = round(I * r / 100), under either rule for ties, and
\* 0 <= clicks <= I.
C9_ClicksRounded ==
    (/\ Len(raw_entry) >= 4
     /\ WellFormedCtr(raw_entry[4])
     /\ get_impressions(raw_entry[3]).val # None) =>
        LET I == raw_entry[3][1].v
            r == raw_entry[4][1].v
        IN  /\ entry # None
            /\ entry[1].clicks.val # None
            /\ entry[1].clicks.val[1] \in
                 {RoundHalfEven(I * r, 100), RoundHalfUp(I * r, 100)}
            /\ entry[1].clicks.val[1] \in 0..I

\* C10: with a well-formed ctr inside [0, 100], get_clicks returns a value
\* iff get_impressions returns one.
C10_NormalizersAgree ==
    (Len(raw_entry) >= 4 /\ WellFormedCtr(raw_entry[4]) /\ entry # None) =>
        (entry[1].clicks.val # None <=> entry[1].impressions.val # None)

=============================================================================
